---- MODULE Spec2Model ----
(***************************************************************************)
(* Model of the ELD trip planner backend (routes app): the HOSRegulation   *)
(* table, RouteCalculator (stops and daily logs) and HOSValidator          *)
(* (trip validation and cycle compliance).                                 *)
(*                                                                         *)
(* Units: every duration and every regulation hour field is held in whole  *)
(* minutes (11 h = 660); a datetime is minutes since midnight of day 0 of  *)
(* the wall clock; a "%I:%M %p" string is the record [h, m, p]; an "HH:MM" *)
(* string is the pair <<h, m>>; a "%.1f" string is a number of tenths.     *)
(***************************************************************************)
EXTENDS Integers, Sequences, FiniteSets, TLC

VARIABLES
    hosRows,     \* HOSRegulation table, in primary-key order: [reg, is_active]
    last,        \* the latest calculate_route call: its inputs and its result
    repeated,    \* the latest call had the inputs of the call before it, at another wall-clock day
    vIn, vOut,   \* validate_trip: its argument and its result
    cIn, cOut,   \* check_hos_compliance: its arguments and its result
    argsAfter,   \* the argument objects of the latest call, as the call left them
    response,    \* the latest response of the calculate endpoint
    save,        \* the save endpoint: the request being saved and the rows stored
    seedRuns     \* seed_hos_regulations: where each run of the command stands

vars == <<hosRows, last, repeated, vIn, vOut, cIn, cOut, argsAfter, response, save, seedRuns>>

None == [none |-> TRUE]

(***************************************************************************)
(* Bounds of the model.                                                    *)
(***************************************************************************)
MaxRows == 2        \* rows the HOSRegulation table may hold
MaxClock == 1       \* wall-clock days 0..MaxClock at which a calculation may run
MaxLogs == 2        \* logs in a hand-made log set given to the compliance check
MaxOver == 1        \* cycle_hours_used values tried beyond each end of [0, 70]
MaxSaveItems == 2   \* stops, logs and activities per log in a save request
MaxSeedRuns == 2    \* runs of the seed_hos_regulations command

Min(a, b) == IF a <= b THEN a ELSE b
Max(a, b) == IF a >= b THEN a ELSE b

(***************************************************************************)
(* Regulation profiles.                                                    *)
(***************************************************************************)
Regulation(md, mdu, rr, ch, bra, bd) ==
    [max_driving_hours |-> md, max_duty_hours |-> mdu, required_rest_hours |-> rr,
     cycle_hours |-> ch, cycle_days |-> 8, break_required_after |-> bra,
     break_duration |-> bd]

\* The row seed_hos_regulations creates: 11 h, 14 h, 10 h, 70 h / 8 days, 8 h, 0.5 h.
SeededRegulation == Regulation(660, 840, 600, 4200, 480, 30)

\* Rows an administrator may enter; every hour field is > 0.
Profiles ==
    { SeededRegulation,
      Regulation(660, 840, 600, 4200, 690, 30),    \* break threshold 11.5 h
      Regulation(660, 840, 600, 4200, 120, 30),    \* break threshold 2 h
      Regulation(240, 840, 600, 4200, 480, 30),    \* 4 h of driving per shift
      Regulation(660, 840, 600, 3600, 480, 30) }   \* 60-hour cycle

AllHourFieldsPositive(r) ==
    /\ r.max_driving_hours > 0 /\ r.max_duty_hours > 0 /\ r.required_rest_hours > 0
    /\ r.cycle_hours > 0 /\ r.break_required_after > 0 /\ r.break_duration > 0

\* HOSRegulation.objects.filter(is_active=True).first(): lowest primary key first.
ActiveRows(rows) == SelectSeq(rows, LAMBDA r : r.is_active)

\* Mutant: the query drops the is_active filter and takes the first row.
NewRouteCalculatorFirstRow(rows) ==
    IF rows = << >>
    THEN [max_driving_hours |-> 660, max_duty_hours |-> 840, required_rest_hours |-> 600,
          cycle_hours |-> 4200, cycle_days |-> 8, break_required_after |-> 480,
          break_duration |-> 30, from_db |-> FALSE]
    ELSE LET r == rows[1].reg IN
         [max_driving_hours |-> r.max_driving_hours, max_duty_hours |-> r.max_duty_hours,
          required_rest_hours |-> r.required_rest_hours, cycle_hours |-> r.cycle_hours,
          cycle_days |-> r.cycle_days, break_required_after |-> r.break_required_after,
          break_duration |-> r.break_duration, from_db |-> TRUE]

\* RouteCalculator.__init__: the values the calculator works with. from_db tells
\* float(Decimal) values from the int literals of the fallback branch.
NewRouteCalculator(rows) ==
    IF ActiveRows(rows) = << >>
    THEN [max_driving_hours |-> 660, max_duty_hours |-> 840, required_rest_hours |-> 600,
          cycle_hours |-> 4200, cycle_days |-> 8, break_required_after |-> 480,
          break_duration |-> 30, from_db |-> FALSE]
    ELSE LET r == ActiveRows(rows)[1].reg IN
         [max_driving_hours |-> r.max_driving_hours, max_duty_hours |-> r.max_duty_hours,
          required_rest_hours |-> r.required_rest_hours, cycle_hours |-> r.cycle_hours,
          cycle_days |-> r.cycle_days, break_required_after |-> r.break_required_after,
          break_duration |-> r.break_duration, from_db |-> TRUE]

(***************************************************************************)
(* Clock strings.                                                          *)
(***************************************************************************)
\* datetime.time().strftime('%I:%M %p') of a datetime held in minutes.
Strftime12(dt) ==
    LET tod == dt % 1440
        h24 == tod \div 60
    IN [h |-> IF h24 % 12 = 0 THEN 12 ELSE h24 % 12,
        m |-> tod % 60,
        p |-> IF h24 < 12 THEN "AM" ELSE "PM"]


\* Mutant: the day label is taken from the calendar date of the datetime.
DayTimeOfDate(n, dt) == [day |-> dt \div 1440 + 1, clock |-> Strftime12(dt)]

\* f"Day {n}, {clock}"
DayTime(n, dt) == [day |-> n, clock |-> Strftime12(dt)]

(***************************************************************************)
(* RouteCalculator._get_route_coordinates: the simulated route.            *)
(***************************************************************************)
get_route_coordinates(start, pickup, dropoff) ==
    LET total_distance == 120 + 630
        total_duration == 7200 + 34200
        days == total_duration \div 86400
        hours == (total_duration % 86400) \div 3600
    IN [start_to_pickup_distance |-> 120,
        start_to_pickup_duration |-> 7200,
        pickup_to_dropoff_distance |-> 630,
        pickup_to_dropoff_duration |-> 34200,
        total_distance |-> total_distance,
        total_duration |-> total_duration,
        total_duration_text |-> IF days > 0 THEN <<days, "days", hours, "hours">>
                                             ELSE <<hours, "hours">>]

(***************************************************************************)
(* RouteCalculator._calculate_stops. now is the day datetime.now() falls   *)
(* on; self is the calculator built by NewRouteCalculator.                 *)
(***************************************************************************)
NumFormat(self) == IF self.from_db THEN "float" ELSE "int"

\* Day 1 up to the pickup: the start stop and the pickup stop.
StopsToPickup(route_data, start_dt) ==
    LET driving_time_to_pickup == route_data.start_to_pickup_duration \div 60
        pickup_dt == start_dt + 30 + driving_time_to_pickup
    IN << [type |-> "start", location |-> "Starting Point",
           description |-> <<"Starting location">>,
           arrivalTime |-> DayTime(1, start_dt),
           departureTime |-> DayTime(1, start_dt + 30),
           duration |-> <<30, "min">>, mileage |-> 0],
          [type |-> "pickup", location |-> "Pickup Point",
           description |-> <<"Cargo pickup">>,
           arrivalTime |-> DayTime(1, pickup_dt),
           departureTime |-> DayTime(1, pickup_dt + 60),
           duration |-> <<1, "hour">>,
           mileage |-> route_data.start_to_pickup_distance] >>


\* Mutant: the break test looks at the whole route's driving time.
BreakNeededOnRoute(self, driving_time_to_pickup) ==
    (7200 + 34200) \div 60 >= self.break_required_after

\* "Check if a break is needed": the condition of the day-1 rest stop.
BreakNeeded(self, driving_time_to_pickup) ==
    driving_time_to_pickup >= self.break_required_after


\* "Add a fuel stop if needed"
FuelNeeded(route_data) == route_data.total_distance > 400

\* Mutant: the remaining distance is counted from the overnight stop's mileage.
Day2BreakNeededFromOvernight(route_data) ==
    route_data.total_distance - (route_data.start_to_pickup_distance + 380) > 250

\* "Add a rest break on day 2 if needed"
Day2BreakNeeded(route_data) == route_data.total_distance - 380 > 250

RestStop(self, day, location, dt, mileage) ==
    [type |-> "rest", location |-> location,
     description |-> <<"Required", self.break_duration, "float", "-minute break">>,
     arrivalTime |-> DayTime(day, dt),
     departureTime |-> DayTime(day, dt + self.break_duration),
     duration |-> <<self.break_duration, "min">>, mileage |-> mileage]

calculate_stops(self, route_data, cycle_hours_used, now) ==
    LET start_dt == now * 1440 + 8 * 60
        driving_time_to_pickup == route_data.start_to_pickup_duration \div 60
        \* after the inspection, the drive to the pickup and the loading
        after_pickup == start_dt + 30 + driving_time_to_pickup + 60
        hours_used_so_far == driving_time_to_pickup + 90
        remaining0 == Min(self.max_driving_hours - driving_time_to_pickup,
                          self.max_duty_hours - hours_used_so_far)
        brk == BreakNeeded(self, driving_time_to_pickup)
        rest_dt == after_pickup + 120
        after_rest == IF brk THEN rest_dt + self.break_duration ELSE after_pickup
        remaining1 == IF brk THEN remaining0 - (120 + self.break_duration) ELSE remaining0
        fuel == FuelNeeded(route_data)
        fuel_dt == after_rest + 180
        after_fuel == IF fuel THEN fuel_dt + 60 ELSE after_rest
        remaining_driving_hours == IF fuel THEN remaining1 - (180 + 60) ELSE remaining1
        overnight_dt == after_fuel + remaining_driving_hours
        day2_dt == (now + 1) * 1440 + 6 * 60
        brk2 == Day2BreakNeeded(route_data)
        rest2_dt == day2_dt + 240
        after_rest2 == IF brk2 THEN rest2_dt + self.break_duration ELSE day2_dt
        dropoff_dt == after_rest2 + 180
    IN StopsToPickup(route_data, start_dt)
       \o (IF brk
           THEN << RestStop(self, 1, "Rest Area - Highway 70", rest_dt,
                            route_data.start_to_pickup_distance + 120) >>
           ELSE << >>)
       \o (IF fuel
           THEN << [type |-> "fuel", location |-> "Truck Stop - Junction City",
                    description |-> <<"Refueling and meal break">>,
                    arrivalTime |-> DayTime(1, fuel_dt),
                    departureTime |-> DayTime(1, fuel_dt + 60),
                    duration |-> <<1, "hour">>,
                    mileage |-> route_data.start_to_pickup_distance + 240] >>
           ELSE << >>)
       \o << [type |-> "overnight", location |-> "Truck Stop - Riverside",
              description |-> <<self.required_rest_hours, NumFormat(self), "-hour rest period">>,
              arrivalTime |-> DayTime(1, overnight_dt),
              departureTime |-> [day |-> 2, clock |-> [h |-> 6, m |-> 0, p |-> "AM"]],
              duration |-> <<self.required_rest_hours, NumFormat(self), "hours">>,
              mileage |-> route_data.start_to_pickup_distance + 380] >>
       \o (IF brk2
           THEN << RestStop(self, 2, "Rest Area - Highway 40", rest2_dt, 620) >>
           ELSE << >>)
       \o << [type |-> "dropoff", location |-> "Dropoff Point",
              description |-> <<"Final delivery">>,
              arrivalTime |-> DayTime(2, dropoff_dt),
              departureTime |-> DayTime(2, dropoff_dt + 60),
              duration |-> <<1, "hour">>,
              mileage |-> route_data.total_distance] >>

(***************************************************************************)
(* RouteCalculator._calculate_hours and the "%.1f" totals.                 *)
(***************************************************************************)
\* Hours between two "HH:MM" strings, in minutes (the code divides by 60).
calculate_hours(start_time, end_time) ==
    LET start_minutes == start_time[1] * 60 + start_time[2]
        end_minutes == end_time[1] * 60 + end_time[2]
    IN (IF end_minutes < start_minutes THEN end_minutes + 24 * 60 ELSE end_minutes)
       - start_minutes


\* Mutant: the totals are formatted "%.0f", to the whole hour (round-half-even).
Format0f(minutes) ==
    LET q == minutes \div 60
        r == minutes % 60
    IN 10 * (IF r < 30 THEN q
             ELSE IF r > 30 THEN q + 1
             ELSE IF q % 2 = 0 THEN q ELSE q + 1)

\* f"{hours:.1f}" of minutes / 60: the number of tenths, round-half-even. (Every
\* total of the fixed timelines is a multiple of 30 minutes, which a float holds
\* exactly.)
Format1f(minutes) ==
    LET q == minutes \div 6
        r == minutes % 6
    IN IF r < 3 THEN q
       ELSE IF r > 3 THEN q + 1
       ELSE IF q % 2 = 0 THEN q ELSE q + 1

RECURSIVE SumHours(_, _)
\* sum(calculate_hours(a.startTime, a.endTime) for a in activities if a.type == type)
SumHours(activities, type) ==
    IF activities = << >> THEN 0
    ELSE (IF Head(activities).type = type
          THEN calculate_hours(Head(activities).startTime, Head(activities).endTime)
          ELSE 0)
         + SumHours(Tail(activities), type)

(***************************************************************************)
(* RouteCalculator._create_daily_log: the fixed duty timelines.            *)
(* stops is the day's stop list; Python's stops[k] is stops[k + 1] here.   *)
(***************************************************************************)
Day1Activities(start_location, stops) ==
    << [type |-> "offDuty", startTime |-> <<0, 0>>, endTime |-> <<8, 0>>,
        location |-> start_location],
       [type |-> "onDutyNotDriving", startTime |-> <<8, 0>>, endTime |-> <<8, 30>>,
        location |-> start_location, description |-> "Pre-trip inspection"],
       [type |-> "driving", startTime |-> <<8, 30>>, endTime |-> <<10, 30>>,
        location |-> "En route to pickup"],
       [type |-> "onDutyNotDriving", startTime |-> <<10, 30>>, endTime |-> <<11, 30>>,
        location |-> stops[2].location, description |-> "Loading cargo"],
       [type |-> "driving", startTime |-> <<11, 30>>, endTime |-> <<13, 30>>,
        location |-> "En route"],
       [type |-> "offDuty", startTime |-> <<13, 30>>, endTime |-> <<14, 0>>,
        location |-> stops[3].location, description |-> "Required 30-minute break"],
       [type |-> "driving", startTime |-> <<14, 0>>, endTime |-> <<16, 30>>,
        location |-> "En route"],
       [type |-> "onDutyNotDriving", startTime |-> <<16, 30>>, endTime |-> <<17, 30>>,
        location |-> stops[4].location, description |-> "Refueling"],
       [type |-> "driving", startTime |-> <<17, 30>>, endTime |-> <<20, 0>>,
        location |-> "En route"],
       [type |-> "sleeperBerth", startTime |-> <<20, 0>>, endTime |-> <<24, 0>>,
        location |-> stops[Len(stops)].location] >>


\* Mutant: the day's last activity is closed at 23:59.
Day2ActivitiesTo2359(stops) ==
    << [type |-> "sleeperBerth", startTime |-> <<0, 0>>, endTime |-> <<6, 0>>,
        location |-> stops[1].location],
       [type |-> "onDutyNotDriving", startTime |-> <<6, 0>>, endTime |-> <<6, 30>>,
        location |-> stops[1].location, description |-> "Pre-trip inspection"],
       [type |-> "driving", startTime |-> <<6, 30>>, endTime |-> <<10, 0>>,
        location |-> "En route"],
       [type |-> "offDuty", startTime |-> <<10, 0>>, endTime |-> <<10, 30>>,
        location |-> IF Len(stops) > 1 THEN stops[2].location ELSE "Rest Area",
        description |-> "Required 30-minute break"],
       [type |-> "driving", startTime |-> <<10, 30>>, endTime |-> <<13, 30>>,
        location |-> "En route to delivery"],
       [type |-> "onDutyNotDriving", startTime |-> <<13, 30>>, endTime |-> <<14, 30>>,
        location |-> stops[Len(stops)].location, description |-> "Unloading cargo"],
       [type |-> "offDuty", startTime |-> <<14, 30>>, endTime |-> <<23, 59>>,
        location |-> stops[Len(stops)].location] >>

Day2Activities(stops) ==
    << [type |-> "sleeperBerth", startTime |-> <<0, 0>>, endTime |-> <<6, 0>>,
        location |-> stops[1].location],
       [type |-> "onDutyNotDriving", startTime |-> <<6, 0>>, endTime |-> <<6, 30>>,
        location |-> stops[1].location, description |-> "Pre-trip inspection"],
       [type |-> "driving", startTime |-> <<6, 30>>, endTime |-> <<10, 0>>,
        location |-> "En route"],
       [type |-> "offDuty", startTime |-> <<10, 0>>, endTime |-> <<10, 30>>,
        location |-> IF Len(stops) > 1 THEN stops[2].location ELSE "Rest Area",
        description |-> "Required 30-minute break"],
       [type |-> "driving", startTime |-> <<10, 30>>, endTime |-> <<13, 30>>,
        location |-> "En route to delivery"],
       [type |-> "onDutyNotDriving", startTime |-> <<13, 30>>, endTime |-> <<14, 30>>,
        location |-> stops[Len(stops)].location, description |-> "Unloading cargo"],
       [type |-> "offDuty", startTime |-> <<14, 30>>, endTime |-> <<24, 0>>,
        location |-> stops[Len(stops)].location] >>

\* Mutant: the remark is stamped with the stop's departure time.
RemarksAtDeparture(stops) ==
    [i \in 1..Len(stops) |->
        <<stops[i].departureTime.clock, stops[i].description, stops[i].location>>]

\* One remark per stop: f"{arrival clock} - {description} at {location}".
Remarks(stops) ==
    [i \in 1..Len(stops) |->
        <<stops[i].arrivalTime.clock, stops[i].description, stops[i].location>>]

\* The totalHours mapping: each value the "%.1f" string of the type's hours.
TotalHours(activities) ==
    [offDuty |-> Format1f(SumHours(activities, "offDuty")),
     sleeperBerth |-> Format1f(SumHours(activities, "sleeperBerth")),
     driving |-> Format1f(SumHours(activities, "driving")),
     onDutyNotDriving |-> Format1f(SumHours(activities, "onDutyNotDriving"))]

create_daily_log(date, start_location, end_location, total_miles, stops, day_number) ==
    LET activities == IF day_number = 1 THEN Day1Activities(start_location, stops)
                      ELSE IF day_number = 2 THEN Day2Activities(stops)
                      ELSE << >>
    IN [date |-> date,
        startLocation |-> start_location,
        endLocation |-> end_location,
        totalMiles |-> total_miles,
        shippingDocuments |-> "BOL-12345",
        remarks |-> Remarks(stops),
        activities |-> activities,
        totalHours |-> TotalHours(activities)]

(***************************************************************************)
(* RouteCalculator._generate_logs                                          *)
(***************************************************************************)
\* [stop for stop in stops if stop['arrivalTime'].startswith('Day n')]
DayStops(stops, n) == SelectSeq(stops, LAMBDA st : st.arrivalTime.day = n)

\* Mutant: day 2's total_miles is the last stop's mileage, day 1's not taken off.
generate_logs_cumulative(stops, cycle_hours_used) ==
    LET day_1_stops == DayStops(stops, 1)
        day_2_stops == DayStops(stops, 2)
    IN (IF day_1_stops # << >>
        THEN << create_daily_log("04/15/2023",
                    day_1_stops[1].location,
                    day_1_stops[Len(day_1_stops)].location,
                    day_1_stops[Len(day_1_stops)].mileage,
                    day_1_stops, 1) >>
        ELSE << >>)
       \o
       (IF day_2_stops # << >>
        THEN << create_daily_log("04/16/2023",
                    day_2_stops[1].location,
                    day_2_stops[Len(day_2_stops)].location,
                    day_2_stops[Len(day_2_stops)].mileage,
                    day_2_stops, 2) >>
        ELSE << >>)

generate_logs(stops, cycle_hours_used) ==
    LET day_1_stops == DayStops(stops, 1)
        day_2_stops == DayStops(stops, 2)
    IN (IF day_1_stops # << >>
        THEN << create_daily_log("04/15/2023",
                    day_1_stops[1].location,
                    day_1_stops[Len(day_1_stops)].location,
                    day_1_stops[Len(day_1_stops)].mileage,
                    day_1_stops, 1) >>
        ELSE << >>)
       \o
       (IF day_2_stops # << >>
        THEN << create_daily_log("04/16/2023",
                    day_2_stops[1].location,
                    day_2_stops[Len(day_2_stops)].location,
                    IF day_1_stops # << >>
                    THEN day_2_stops[Len(day_2_stops)].mileage
                         - day_1_stops[Len(day_1_stops)].mileage
                    ELSE day_2_stops[Len(day_2_stops)].mileage,
                    day_2_stops, 2) >>
        ELSE << >>)

(***************************************************************************)
(* RouteCalculator.calculate_route                                         *)
(***************************************************************************)
\* Mutant: no itinerary when the hours used plus the trip's driving and
\* on-duty hours exceed the cycle cap.
calculate_route_capped(self, trip_details, now) ==
    LET cycle_hours_used == trip_details.cycle_hours_used
        route_data == get_route_coordinates(trip_details.current_location,
                                            trip_details.pickup_location,
                                            trip_details.dropoff_location)
        stops == calculate_stops(self, route_data, cycle_hours_used, now)
        logs == generate_logs(stops, cycle_hours_used)
        on_duty == 6 * (logs[1].totalHours.driving + logs[1].totalHours.onDutyNotDriving
                        + logs[2].totalHours.driving + logs[2].totalHours.onDutyNotDriving)
        refused == cycle_hours_used.value + on_duty > self.cycle_hours
    IN [startLocation |-> trip_details.current_location,
        endLocation |-> trip_details.dropoff_location,
        totalDistance |-> route_data.total_distance,
        totalDuration |-> route_data.total_duration_text,
        stops |-> IF refused THEN << >> ELSE stops,
        logs |-> IF refused THEN << >> ELSE logs]

calculate_route(self, trip_details, now) ==
    LET cycle_hours_used == trip_details.cycle_hours_used
        route_data == get_route_coordinates(trip_details.current_location,
                                            trip_details.pickup_location,
                                            trip_details.dropoff_location)
        stops == calculate_stops(self, route_data, cycle_hours_used, now)
        logs == generate_logs(stops, cycle_hours_used)
    IN [startLocation |-> trip_details.current_location,
        endLocation |-> trip_details.dropoff_location,
        totalDistance |-> route_data.total_distance,
        totalDuration |-> route_data.total_duration_text,
        stops |-> stops,
        logs |-> logs]

(***************************************************************************)
(* HOSValidator. A cycle_hours_used argument is [numeric, value]: float()  *)
(* of it is value when numeric and raises ValueError otherwise.            *)
(***************************************************************************)
Number(v) == [numeric |-> TRUE, value |-> v]
NotANumber == [numeric |-> FALSE, value |-> 0]


\* Mutant: the rules are chained with elif, so the first violation hides the rest.
TripErrorKeysFirstOnly(trip_details) ==
    LET cycle_hours_used == trip_details.cycle_hours_used.value
    IN IF cycle_hours_used < 0 \/ cycle_hours_used > 70 * 60 THEN {"cycle_hours_used"}
       ELSE IF trip_details.current_location = "" THEN {"current_location"}
       ELSE IF trip_details.pickup_location = "" THEN {"pickup_location"}
       ELSE IF trip_details.dropoff_location = "" THEN {"dropoff_location"}
       ELSE {}

\* The error keys validate_trip sets, rule by rule.
TripErrorKeys(trip_details) ==
    LET cycle_hours_used == trip_details.cycle_hours_used.value
    IN (IF cycle_hours_used < 0 \/ cycle_hours_used > 70 * 60
        THEN {"cycle_hours_used"} ELSE {})
       \cup (IF trip_details.current_location = "" THEN {"current_location"} ELSE {})
       \cup (IF trip_details.pickup_location = "" THEN {"pickup_location"} ELSE {})
       \cup (IF trip_details.dropoff_location = "" THEN {"dropoff_location"} ELSE {})

TripErrorMessage(key) ==
    CASE key = "cycle_hours_used" -> "Cycle hours used must be between 0 and 70."
      [] key = "current_location" -> "Current location is required."
      [] key = "pickup_location" -> "Pickup location is required."
      [] key = "dropoff_location" -> "Dropoff location is required."

validate_trip(trip_details) ==
    IF ~trip_details.cycle_hours_used.numeric
    THEN [raised |-> "ValueError"]
    ELSE LET errors == [k \in TripErrorKeys(trip_details) |-> TripErrorMessage(k)]
         IN [valid |-> (Cardinality(DOMAIN errors) = 0), errors |-> errors]

RECURSIVE TotalDriving(_)
\* sum of float(log['totalHours']['driving']), in minutes
TotalDriving(logs) ==
    IF logs = << >> THEN 0
    ELSE Head(logs).totalHours.driving * 6 + TotalDriving(Tail(logs))

RECURSIVE TotalOnDuty(_)
\* sum of float(driving) + float(onDutyNotDriving), in minutes
TotalOnDuty(logs) ==
    IF logs = << >> THEN 0
    ELSE Head(logs).totalHours.driving * 6 + Head(logs).totalHours.onDutyNotDriving * 6
         + TotalOnDuty(Tail(logs))


\* Mutant: the remainder is returned as computed.
ClampRemainingNot(cycle_hours_remaining) == cycle_hours_remaining

\* max(0, cycle_hours_remaining)
ClampRemaining(cycle_hours_remaining) == Max(0, cycle_hours_remaining)

\* min(100, (hours / 70) * 100), held as the fraction num / den
UsedPercentage(minutes) ==
    [num |-> Min(100 * (70 * 60), minutes * 100), den |-> 70 * 60]

check_hos_compliance(route_data, cycle_hours_used) ==
    LET total_driving_hours == TotalDriving(route_data.logs)
        total_on_duty_hours == TotalOnDuty(route_data.logs)
        cycle_hours_remaining == 70 * 60 - (cycle_hours_used + total_on_duty_hours)
        is_compliant == cycle_hours_remaining >= 0
    IN [isCompliant |-> is_compliant,
        cycleHoursUsed |-> cycle_hours_used,
        tripDrivingHours |-> total_driving_hours,
        tripOnDutyHours |-> total_on_duty_hours,
        cycleHoursRemaining |-> ClampRemaining(cycle_hours_remaining),
        cycleHoursUsedPercentage |-> UsedPercentage(cycle_hours_used + total_on_duty_hours)]

(***************************************************************************)
(* Inputs.                                                                 *)
(***************************************************************************)
\* cycle_hours_used values, in minutes: inside [0, 70 h], at its ends and beyond them.
UsedValues ==
    {0, 60, 69 * 60, 70 * 60}
    \cup {0 - 60 * k : k \in 1..MaxOver}
    \cup {70 * 60 + 60 * k : k \in 1..MaxOver}

\* Trips that pass TripDetailsSerializer: three non-blank locations, 0 <= hours <= 70.
ValidTrips ==
    { [current_location |-> "Denver", pickup_location |-> "Omaha",
       dropoff_location |-> "Chicago", cycle_hours_used |-> Number(u)] : u \in {0, 69 * 60} }

\* Arguments validate_trip may be called with.
AnyTrips ==
    [current_location : {"", "Denver"}, pickup_location : {"", "Omaha"},
     dropoff_location : {"", "Chicago"},
     cycle_hours_used : {Number(u) : u \in UsedValues} \cup {NotANumber}]

\* totalHours of hand-made logs, in tenths of an hour.
HandMadeLogs ==
    { [totalHours |-> [driving |-> d, onDutyNotDriving |-> o]] :
        d \in {0, 30, 110}, o \in {0, 20} }

RECURSIVE SeqsUpTo(_, _)
SeqsUpTo(S, n) ==
    IF n = 0 THEN { << >> }
    ELSE LET shorter == SeqsUpTo(S, n - 1)
         IN shorter \cup { Append(q, x) : q \in shorter, x \in S }

(***************************************************************************)
(* The regulation table: seed_hos_regulations and the admin site.          *)
(***************************************************************************)
Deactivated(rows) == [i \in 1..Len(rows) |-> [rows[i] EXCEPT !.is_active = FALSE]]

\* Command.handle: deactivate every row, then create the default row, active.
SeedHosRegulations ==
    /\ Len(hosRows) < MaxRows
    /\ hosRows' = Append(Deactivated(hosRows), [reg |-> SeededRegulation, is_active |-> TRUE])
    /\ UNCHANGED <<last, repeated, vIn, vOut, cIn, cOut, argsAfter, response, save, seedRuns>>

\* HOSRegulationAdmin: add a row.
AdminAdd ==
    /\ Len(hosRows) < MaxRows
    /\ \E r \in Profiles, a \in BOOLEAN :
          hosRows' = Append(hosRows, [reg |-> r, is_active |-> a])
    /\ UNCHANGED <<last, repeated, vIn, vOut, cIn, cOut, argsAfter, response, save, seedRuns>>

\* HOSRegulationAdmin: change a row's is_active.
AdminChange ==
    /\ \E i \in 1..Len(hosRows) :
          hosRows' = [hosRows EXCEPT ![i].is_active = ~hosRows[i].is_active]
    /\ UNCHANGED <<last, repeated, vIn, vOut, cIn, cOut, argsAfter, response, save, seedRuns>>

\* HOSRegulationAdmin: delete a row.
AdminDelete ==
    /\ \E i \in 1..Len(hosRows) :
          hosRows' = SubSeq(hosRows, 1, i - 1) \o SubSeq(hosRows, i + 1, Len(hosRows))
    /\ UNCHANGED <<last, repeated, vIn, vOut, cIn, cOut, argsAfter, response, save, seedRuns>>

(***************************************************************************)
(* The argument objects after a call. None of the three functions assigns  *)
(* to, pops from or appends to an argument: each only reads it.            *)
(***************************************************************************)
\* trip_details after calculate_route(trip_details)
TripAfterCalculateRoute(trip_details) == trip_details

\* Mutant: the hours are taken with trip_details.pop('cycle_hours_used').
TripAfterValidateTripPop(trip_details) ==
    [k \in DOMAIN trip_details \ {"cycle_hours_used"} |-> trip_details[k]]

\* trip_details after validate_trip(trip_details), returned or raised
TripAfterValidateTrip(trip_details) == trip_details

\* route_data after check_hos_compliance(route_data, cycle_hours_used)
RouteDataAfterCompliance(route_data) == route_data

(***************************************************************************)
(* TripDetailsSerializer. A cycle_hours_used that is not numeric stands    *)
(* for a string such as "abc": to_internal_value hands it to Decimal(),    *)
(* whose decimal.InvalidOperation is neither ValueError nor TypeError, so  *)
(* the except clause does not catch it and is_valid() raises.              *)
(***************************************************************************)
TripSerializerErrorFields(data) ==
    (IF data.current_location = "" THEN {"current_location"} ELSE {})
    \cup (IF data.pickup_location = "" THEN {"pickup_location"} ELSE {})
    \cup (IF data.dropoff_location = "" THEN {"dropoff_location"} ELSE {})
    \cup (IF data.cycle_hours_used.value < 0 \/ data.cycle_hours_used.value > 70 * 60
          THEN {"cycle_hours_used"} ELSE {})

TripSerializerMessage(data, field) ==
    IF field = "cycle_hours_used"
    THEN (IF data.cycle_hours_used.value < 0
          THEN "Cycle hours used cannot be negative."
          ELSE "Cycle hours used cannot exceed 70.")
    ELSE "This field may not be blank."

\* serializer.is_valid(): raises, or leaves serializer.errors
TripSerializerValidate(data) ==
    IF ~data.cycle_hours_used.numeric
    THEN [raised |-> "InvalidOperation"]
    ELSE [errors |-> [f \in TripSerializerErrorFields(data) |-> TripSerializerMessage(data, f)]]

TripSerializerAccepts(data) ==
    /\ "errors" \in DOMAIN TripSerializerValidate(data)
    /\ DOMAIN TripSerializerValidate(data).errors = {}

(***************************************************************************)
(* RouteViewSet.calculate, when the serializer accepts the request and the *)
(* calculation returns: RouteCalculator() and calculate_route.             *)
(***************************************************************************)
CalculateRoute ==
    \E trip \in ValidTrips, now \in 0..MaxClock :
        LET self == NewRouteCalculator(hosRows)
        IN /\ TripSerializerAccepts(trip)
           /\ last' = [trip |-> trip, self |-> self, now |-> now,
                       result |-> calculate_route(self, trip, now)]
           /\ repeated' = (/\ last # None
                           /\ last.trip = trip
                           /\ last.self = self
                           /\ last.now # now)
           /\ argsAfter' = [trip_details |-> TripAfterCalculateRoute(trip)]
           /\ response' = [request |-> trip, status |-> 200, data |-> last'.result]
           /\ UNCHANGED <<hosRows, vIn, vOut, cIn, cOut, save, seedRuns>>

Init ==
    /\ hosRows = << >>
    /\ last = None
    /\ repeated = FALSE
    /\ vIn = None /\ vOut = None
    /\ cIn = None /\ cOut = None
    /\ argsAfter = None /\ response = None /\ save = None
    /\ seedRuns = None

Next ==
    \/ SeedHosRegulations
    \/ AdminAdd
    \/ AdminChange
    \/ AdminDelete
    \/ CalculateRoute

Spec == Init /\ [][Next]_vars

(***************************************************************************)
(* validate_trip as a function of its argument.                            *)
(***************************************************************************)
\* Tables with no row, or with one active row.
OneRowTables ==
    { << >> } \cup { << [reg |-> r, is_active |-> TRUE] >> : r \in Profiles }

InitValidate ==
    /\ hosRows \in OneRowTables
    /\ last = None
    /\ repeated = FALSE
    /\ vIn \in AnyTrips /\ vOut = None
    /\ cIn = None /\ cOut = None
    /\ argsAfter = None /\ response = None /\ save = None
    /\ seedRuns = None

ValidateTrip ==
    /\ vOut = None
    /\ vOut' = validate_trip(vIn)
    /\ argsAfter' = [trip_details |-> TripAfterValidateTrip(vIn)]
    /\ UNCHANGED <<hosRows, last, repeated, vIn, cIn, cOut, response, save, seedRuns>>

NextValidate == ValidateTrip

SpecValidate == InitValidate /\ [][NextValidate]_vars

(***************************************************************************)
(* check_hos_compliance as a function of its arguments. The table holds    *)
(* the regulation in effect; the log set is the one calculate_route makes  *)
(* under it, or a hand-made one.                                           *)
(***************************************************************************)
InitCompliance ==
    /\ hosRows \in OneRowTables
    /\ last = None
    /\ repeated = FALSE
    /\ vIn = None /\ vOut = None
    /\ \E logs \in SeqsUpTo(HandMadeLogs, MaxLogs)
                   \cup { calculate_route(NewRouteCalculator(hosRows), t, 0).logs : t \in ValidTrips },
          u \in UsedValues :
          cIn = [route_data |-> [logs |-> logs], cycle_hours_used |-> u]
    /\ cOut = None
    /\ argsAfter = None /\ response = None /\ save = None
    /\ seedRuns = None

CheckHosCompliance ==
    /\ cOut = None
    /\ cOut' = check_hos_compliance(cIn.route_data, cIn.cycle_hours_used)
    /\ argsAfter' = [route_data |-> RouteDataAfterCompliance(cIn.route_data),
                     cycle_hours_used |-> cIn.cycle_hours_used]
    /\ UNCHANGED <<hosRows, last, repeated, vIn, vOut, cIn, response, save, seedRuns>>

NextCompliance == CheckHosCompliance

SpecCompliance == InitCompliance /\ [][NextCompliance]_vars

(***************************************************************************)
(* RouteViewSet.calculate with its other outcomes: the serializer rejects  *)
(* the request (or raises), or the calculation raises inside the try.      *)
(***************************************************************************)
\* The response to an exception no handler of the view catches.
UnhandledResponse(exc) ==
    [error |-> "An unexpected error occurred.", detail |-> exc]

\* is_valid() is false (400 with serializer.errors) or raises (500).
CalculateInvalid ==
    \E data \in AnyTrips :
        LET outcome == TripSerializerValidate(data)
        IN /\ ~TripSerializerAccepts(data)
           /\ response' = IF "raised" \in DOMAIN outcome
                          THEN [request |-> data, status |-> 500,
                                data |-> UnhandledResponse(outcome.raised)]
                          ELSE [request |-> data, status |-> 400, data |-> outcome.errors]
           /\ UNCHANGED <<hosRows, last, repeated, vIn, vOut, cIn, cOut, argsAfter, save, seedRuns>>

\* RouteCalculator() or calculate_route raises (the regulation query or the
\* settings lookup fails): the except branch answers 500 with str(e) alone.
CalculateRaises ==
    \E trip \in ValidTrips :
        /\ TripSerializerAccepts(trip)
        /\ response' = [request |-> trip, status |-> 500,
                        data |-> [error |-> "OperationalError"]]
        /\ UNCHANGED <<hosRows, last, repeated, vIn, vOut, cIn, cOut, argsAfter, save, seedRuns>>

InitEndpoint ==
    /\ hosRows \in OneRowTables
    /\ last = None
    /\ repeated = FALSE
    /\ vIn = None /\ vOut = None
    /\ cIn = None /\ cOut = None
    /\ argsAfter = None /\ response = None /\ save = None
    /\ seedRuns = None

NextEndpoint ==
    \/ CalculateInvalid
    \/ CalculateRoute
    \/ CalculateRaises

SpecEndpoint == InitEndpoint /\ [][NextEndpoint]_vars

(***************************************************************************)
(* The three service functions called one after another on any arguments;  *)
(* the state keeps the latest call only.                                   *)
(***************************************************************************)
CallCalculateRoute ==
    \E trip \in ValidTrips, now \in 0..MaxClock :
        LET self == NewRouteCalculator(hosRows)
        IN /\ last' = [trip |-> trip, self |-> self, now |-> now,
                       result |-> calculate_route(self, trip, now)]
           /\ argsAfter' = [trip_details |-> TripAfterCalculateRoute(trip)]
           /\ vIn' = None /\ vOut' = None /\ cIn' = None /\ cOut' = None
           /\ UNCHANGED <<hosRows, repeated, response, save, seedRuns>>

CallValidateTrip ==
    \E trip \in AnyTrips :
        /\ vIn' = trip
        /\ vOut' = validate_trip(trip)
        /\ argsAfter' = [trip_details |-> TripAfterValidateTrip(trip)]
        /\ last' = None /\ cIn' = None /\ cOut' = None
        /\ UNCHANGED <<hosRows, repeated, response, save, seedRuns>>

CallCheckHosCompliance ==
    \E logs \in SeqsUpTo(HandMadeLogs, 1)
                \cup { calculate_route(NewRouteCalculator(hosRows), t, 0).logs : t \in ValidTrips },
       u \in UsedValues :
        /\ cIn' = [route_data |-> [logs |-> logs], cycle_hours_used |-> u]
        /\ cOut' = check_hos_compliance([logs |-> logs], u)
        /\ argsAfter' = [route_data |-> RouteDataAfterCompliance([logs |-> logs]),
                         cycle_hours_used |-> u]
        /\ last' = None /\ vIn' = None /\ vOut' = None
        /\ UNCHANGED <<hosRows, repeated, response, save, seedRuns>>

NextCalls ==
    \/ CallCalculateRoute
    \/ CallValidateTrip
    \/ CallCheckHosCompliance

SpecCalls == InitEndpoint /\ [][NextCalls]_vars

(***************************************************************************)
(* RouteViewSet.save and RouteSerializer.create. A request is the number   *)
(* of stops and, per log, the number of its activities. persisted is the   *)
(* sequence of rows the operation leaves in the database. The project's    *)
(* settings decide whether a request runs in a transaction                 *)
(* (ATOMIC_REQUESTS; Django's default is not), so both are possible and    *)
(* the choice is made once, in the initial state.                          *)
(***************************************************************************)
SaveRequests == [stops : 0..MaxSaveItems, logs : SeqsUpTo(0..MaxSaveItems, MaxSaveItems)]

RECURSIVE LogInserts(_)
\* for log_data in logs_data: LogDay, then its LogActivity rows
LogInserts(logs) ==
    IF logs = << >> THEN << >>
    ELSE << "LogDay" >> \o [k \in 1..Head(logs) |-> "LogActivity"] \o LogInserts(Tail(logs))

\* The INSERTs RouteSerializer.create issues, in order.
CreateInserts(data) ==
    << "Route" >> \o [k \in 1..data.stops |-> "RouteStop"] \o LogInserts(data.logs)

\* The k-th INSERT. The database may fail at INSERT number fault (0: it does
\* not). LogDay.objects.create gets no off_duty_hours, sleeper_berth_hours,
\* driving_hours or on_duty_not_driving_hours (the serializer's total_hours
\* is read-only), and these columns are NOT NULL: IntegrityError.
InsertRaises(kind, k, fault) ==
    IF k = fault THEN "OperationalError"
    ELSE IF kind = "LogDay" THEN "IntegrityError"
    ELSE "none"

\* RouteSerializer.create: the rows written before the first INSERT that raises.
RouteSerializerCreate(data, fault) ==
    LET inserts == CreateInserts(data)
        failing == { k \in 1..Len(inserts) : InsertRaises(inserts[k], k, fault) # "none" }
        first == IF failing = {} THEN 0
                 ELSE CHOOSE k \in failing : \A j \in failing : k <= j
    IN IF first = 0
       THEN [raised |-> "none", written |-> inserts]
       ELSE [raised |-> InsertRaises(inserts[first], first, fault),
             written |-> SubSeq(inserts, 1, first - 1)]

\* serializer.is_valid() on a well-formed request: validating an activity
\* builds the fields of LogActivitySerializer, whose 'stop_type' is not a
\* field of LogActivity, which raises ImproperlyConfigured.
RouteSerializerValidate(data) ==
    IF \E i \in 1..Len(data.logs) : data.logs[i] > 0
    THEN [raised |-> "ImproperlyConfigured"]
    ELSE [errors |-> << >>]

RouteViewSetSave(data, fault, atomic_requests) ==
    IF "raised" \in DOMAIN RouteSerializerValidate(data)
    THEN [status |-> 500, raised |-> RouteSerializerValidate(data).raised,
          persisted |-> << >>]
    ELSE LET created == RouteSerializerCreate(data, fault)
         IN IF created.raised = "none"
            THEN [status |-> 201, raised |-> "none", persisted |-> created.written]
            ELSE [status |-> 500, raised |-> created.raised,
                  persisted |-> IF atomic_requests THEN << >> ELSE created.written]

SaveRoute ==
    \E data \in SaveRequests, fault \in 0..(MaxSaveItems + 2) :
        LET outcome == RouteViewSetSave(data, fault, save.atomic_requests)
        IN /\ save' = [atomic_requests |-> save.atomic_requests, pc |-> "done",
                       request |-> data, status |-> outcome.status,
                       raised |-> outcome.raised, persisted |-> outcome.persisted]
           /\ UNCHANGED <<hosRows, last, repeated, vIn, vOut, cIn, cOut, argsAfter, response,
                         seedRuns>>

InitSave ==
    /\ hosRows = << >>
    /\ last = None
    /\ repeated = FALSE
    /\ vIn = None /\ vOut = None
    /\ cIn = None /\ cOut = None
    /\ argsAfter = None /\ response = None
    /\ save \in { [atomic_requests |-> a, pc |-> "idle"] : a \in BOOLEAN }
    /\ seedRuns = None

NextSave == SaveRoute

SpecSave == InitSave /\ [][NextSave]_vars

(***************************************************************************)
(* seed_hos_regulations run by several processes. Command.handle issues    *)
(* two statements, each committed on its own: the UPDATE that deactivates  *)
(* every row and the INSERT of the default row. Statements of different    *)
(* runs may interleave. seedRuns[p] is "idle" before run p starts,         *)
(* "deactivated" between its two statements and "done" after them.         *)
(***************************************************************************)
SeedRunIds == 1..MaxSeedRuns

\* Any rows the table may hold before the runs.
ExistingTables ==
    SeqsUpTo({ [reg |-> r, is_active |-> a] : r \in Profiles, a \in BOOLEAN }, MaxRows)

\* HOSRegulation.objects.all().update(is_active=False)
SeedDeactivate(p) ==
    /\ seedRuns[p] = "idle"
    /\ hosRows' = Deactivated(hosRows)
    /\ seedRuns' = [seedRuns EXCEPT ![p] = "deactivated"]
    /\ UNCHANGED <<last, repeated, vIn, vOut, cIn, cOut, argsAfter, response, save>>

\* HOSRegulation.objects.create(..., is_active=True)
SeedCreate(p) ==
    /\ seedRuns[p] = "deactivated"
    /\ hosRows' = Append(hosRows, [reg |-> SeededRegulation, is_active |-> TRUE])
    /\ seedRuns' = [seedRuns EXCEPT ![p] = "done"]
    /\ UNCHANGED <<last, repeated, vIn, vOut, cIn, cOut, argsAfter, response, save>>

InitSeed ==
    /\ hosRows \in ExistingTables
    /\ last = None
    /\ repeated = FALSE
    /\ vIn = None /\ vOut = None
    /\ cIn = None /\ cOut = None
    /\ argsAfter = None /\ response = None /\ save = None
    /\ seedRuns = [p \in SeedRunIds |-> "idle"]

NextSeed ==
    \E p \in SeedRunIds :
        \/ SeedDeactivate(p)
        \/ SeedCreate(p)

SpecSeed == InitSeed /\ [][NextSeed]_vars

(***************************************************************************)
(* Vocabulary of the properties.                                           *)
(***************************************************************************)
Calculated == last # None

\* A "%I:%M %p" clock read back as minutes after midnight.
ClockMinutes(c) == ((c.h % 12) + (IF c.p = "PM" THEN 12 ELSE 0)) * 60 + c.m

\* A "Day n, clock" time as day index plus clock time, in minutes.
StopTime(t) == t.day * 1440 + ClockMinutes(t.clock)

\* An "HH:MM" string as minutes after midnight.
HHMM(t) == t[1] * 60 + t[2]

StopKinds(stops) == [i \in 1..Len(stops) |-> stops[i].type]

RestStops(stops) == { i \in 1..Len(stops) : stops[i].type = "rest" }

\* 11 h driving, 14 h duty, break after 8 h, 0.5 h break, 10 h rest.
IsDefaultRegulation(self) ==
    /\ self.max_driving_hours = 660 /\ self.max_duty_hours = 840
    /\ self.break_required_after = 480 /\ self.break_duration = 30
    /\ self.required_rest_hours = 600

\* The 750-mile scenario: no cycle hours used, default regulation.
Scenario750 ==
    /\ Calculated
    /\ last.result.totalDistance = 750
    /\ last.trip.cycle_hours_used.value = 0
    /\ IsDefaultRegulation(last.self)

TotalHoursSum(log) ==
    log.totalHours.offDuty + log.totalHours.sleeperBerth
    + log.totalHours.driving + log.totalHours.onDutyNotDriving

(***************************************************************************)
(* C1: whatever regulation is in effect (any row whose hour fields are all *)
(* > 0, or the fallback values when no row is active), the four totalHours *)
(* values of every daily log calculate_route returns add up to 24.0.       *)
(***************************************************************************)
C1_TotalHoursSumTo24 ==
    Calculated =>
        \A i \in 1..Len(last.result.logs) : TotalHoursSum(last.result.logs[i]) = 240

\* Both days' logs exist, under the fallback values and under a stored row.
C1_Witness ==
    /\ Calculated
    /\ ~last.self.from_db
    /\ Len(last.result.logs) = 2
    /\ TotalHoursSum(last.result.logs[1]) = 240
    /\ TotalHoursSum(last.result.logs[2]) = 240

(***************************************************************************)
(* C2: in every daily log the activities are one contiguous timeline of    *)
(* the day: the first starts at 00:00, the last ends at 24:00, each starts *)
(* where the one before it ends, and each ends after it starts.            *)
(***************************************************************************)
ContiguousDay(activities) ==
    /\ Len(activities) > 0
    /\ activities[1].startTime = <<0, 0>>
    /\ activities[Len(activities)].endTime = <<24, 0>>
    /\ \A k \in 1..Len(activities) :
          HHMM(activities[k].endTime) > HHMM(activities[k].startTime)
    /\ \A k \in 2..Len(activities) :
          activities[k].startTime = activities[k - 1].endTime

C2_ActivitiesContiguous ==
    Calculated =>
        \A i \in 1..Len(last.result.logs) : ContiguousDay(last.result.logs[i].activities)

C2_Witness ==
    /\ Calculated
    /\ last.self.from_db
    /\ Len(last.result.logs) = 2
    /\ Len(last.result.logs[1].activities) = 10
    /\ Len(last.result.logs[2].activities) = 7
    /\ ContiguousDay(last.result.logs[2].activities)

(***************************************************************************)
(* C3: for every regulation whose hour fields are all > 0, arrival times   *)
(* (day index plus clock time) never decrease from one stop to the next,   *)
(* and every stop departs at or after its own arrival.                     *)
(***************************************************************************)
C3_ArrivalsOrdered ==
    (Calculated /\ AllHourFieldsPositive(last.self)) =>
        LET stops == last.result.stops IN
        /\ \A i \in 2..Len(stops) :
              StopTime(stops[i - 1].arrivalTime) <= StopTime(stops[i].arrivalTime)
        /\ \A i \in 1..Len(stops) :
              StopTime(stops[i].departureTime) >= StopTime(stops[i].arrivalTime)

(***************************************************************************)
(* C4: a calculation with the trip details and the regulation values of    *)
(* the calculation before it returns the same stops and the same logs,     *)
(* whatever the wall-clock day of either.                                  *)
(***************************************************************************)
C4_SameInputsSameResult ==
    [][ (/\ last # None
         /\ last' # None
         /\ last'.trip = last.trip
         /\ last'.self = last.self)
        => (/\ last'.result.stops = last.result.stops
            /\ last'.result.logs = last.result.logs) ]_vars

\* The same trip under the same regulation, calculated on two different days.
C4_Witness ==
    /\ Calculated
    /\ repeated
    /\ Len(last.result.stops) > 0

C6_Day1Driving ==
    Scenario750 =>
        /\ last.result.logs[1].totalHours.driving >= 95
        /\ last.result.logs[1].totalHours.driving <= 100

(***************************************************************************)
(* C7: when the regulation's break threshold equals the route's total      *)
(* driving time (11.5 h), the stop sequence holds exactly one rest stop.   *)
(***************************************************************************)
RouteDrivingMinutes == (7200 + 34200) \div 60

C7_OneBreakAtThreshold ==
    (Calculated /\ last.self.break_required_after = RouteDrivingMinutes) =>
        Cardinality(RestStops(last.result.stops)) = 1

C7_Witness ==
    /\ Calculated
    /\ last.self.break_required_after = 690
    /\ Cardinality(RestStops(last.result.stops)) = 1

(***************************************************************************)
(* C8: check_hos_compliance never returns a negative cycleHoursRemaining;  *)
(* isCompliant is true exactly when the cap it works with (70 h) minus     *)
(* (cycleHoursUsed + tripOnDutyHours) is >= 0; and when isCompliant is     *)
(* false, cycleHoursRemaining is 0 and cycleHoursUsedPercentage is 100.    *)
(***************************************************************************)
Checked == cOut # None

RECURSIVE OnDutyTenths(_)
\* driving + onDutyNotDriving over the logs, in tenths of an hour
OnDutyTenths(logs) ==
    IF logs = << >> THEN 0
    ELSE Head(logs).totalHours.driving + Head(logs).totalHours.onDutyNotDriving
         + OnDutyTenths(Tail(logs))

\* cycleHoursUsed + tripOnDutyHours of the call, in minutes
CycleTotal == cIn.cycle_hours_used + 6 * OnDutyTenths(cIn.route_data.logs)

IsPercent100(pct) == pct.num = 100 * pct.den

C8_RemainingClamped ==
    Checked =>
        /\ cOut.cycleHoursRemaining >= 0
        /\ cOut.isCompliant <=> (70 * 60 - CycleTotal >= 0)
        /\ ~cOut.isCompliant =>
              /\ cOut.cycleHoursRemaining = 0
              /\ IsPercent100(cOut.cycleHoursUsedPercentage)

\* 69 h used and a trip of 5 on-duty hours.
C8_Witness ==
    /\ Checked
    /\ cIn.cycle_hours_used = 69 * 60
    /\ OnDutyTenths(cIn.route_data.logs) = 50
    /\ ~cOut.isCompliant
    /\ cOut.cycleHoursRemaining = 0
    /\ IsPercent100(cOut.cycleHoursUsedPercentage)

(***************************************************************************)
(* C9: with C the cycle_hours of the regulation in effect,                 *)
(* cycleHoursRemaining = max(0, C - (cycleHoursUsed + tripOnDutyHours))    *)
(* and cycleHoursUsedPercentage = min(100, (cycleHoursUsed +               *)
(* tripOnDutyHours) / C * 100), tripOnDutyHours being the sum over the     *)
(* logs of driving + onDutyNotDriving.                                     *)
(***************************************************************************)
C9_AgainstProfileCycle ==
    Checked =>
        LET C == NewRouteCalculator(hosRows).cycle_hours
            pct == cOut.cycleHoursUsedPercentage
        IN /\ cOut.tripOnDutyHours = 6 * OnDutyTenths(cIn.route_data.logs)
           /\ cOut.cycleHoursRemaining = Max(0, C - CycleTotal)
           /\ pct.num * C = pct.den * Min(100 * C, 100 * CycleTotal)

(***************************************************************************)
(* C10: for every combination of empty and non-empty location fields and   *)
(* every numeric cycleHoursUsed, the errors of validate_trip have a key    *)
(* for exactly the fields whose rule is violated (the hours rule being the *)
(* interval [0, 70] the function checks), valid is true iff there is no    *)
(* error, and an empty pickup location gives valid = false with the key    *)
(* pickup_location.                                                        *)
(***************************************************************************)
Validated == vOut # None /\ vIn.cycle_hours_used.numeric

ViolatedFields ==
    { k \in {"current_location", "pickup_location", "dropoff_location", "cycle_hours_used"} :
        \/ k = "current_location" /\ vIn.current_location = ""
        \/ k = "pickup_location" /\ vIn.pickup_location = ""
        \/ k = "dropoff_location" /\ vIn.dropoff_location = ""
        \/ k = "cycle_hours_used" /\ ~(vIn.cycle_hours_used.value \in 0..(70 * 60)) }

C10_AllRulesChecked ==
    Validated =>
        /\ DOMAIN vOut.errors = ViolatedFields
        /\ vOut.valid <=> (DOMAIN vOut.errors = {})
        /\ vIn.pickup_location = "" =>
              (~vOut.valid /\ "pickup_location" \in DOMAIN vOut.errors)

\* All four rules violated at once: four keys.
C10_Witness ==
    /\ Validated
    /\ vIn.pickup_location = ""
    /\ vIn.current_location = ""
    /\ vIn.dropoff_location = ""
    /\ vIn.cycle_hours_used.value > 70 * 60
    /\ Cardinality(DOMAIN vOut.errors) = 4
    /\ ~vOut.valid

(***************************************************************************)
(* C11: validate_trip reports the key cycle_hours_used exactly when the    *)
(* value lies outside [0, C], C being the cycle_hours of the active        *)
(* regulation (70 h when there is none); 0 and C themselves are accepted.  *)
(***************************************************************************)
C11_BoundIsProfileCycle ==
    Validated =>
        LET C == NewRouteCalculator(hosRows).cycle_hours
        IN ("cycle_hours_used" \in DOMAIN vOut.errors)
              <=> ~(vIn.cycle_hours_used.value \in 0..C)

(***************************************************************************)
(* C12: when cycle_hours_used is not a number, validate_trip returns a     *)
(* result (it does not raise) with valid = false, the key cycle_hours_used *)
(* and a key for every empty location field.                               *)
(***************************************************************************)
C12_NotANumberReported ==
    (vOut # None /\ ~vIn.cycle_hours_used.numeric) =>
        /\ "raised" \notin DOMAIN vOut
        /\ ~vOut.valid
        /\ "cycle_hours_used" \in DOMAIN vOut.errors
        /\ vIn.current_location = "" => "current_location" \in DOMAIN vOut.errors
        /\ vIn.pickup_location = "" => "pickup_location" \in DOMAIN vOut.errors
        /\ vIn.dropoff_location = "" => "dropoff_location" \in DOMAIN vOut.errors

(***************************************************************************)
(* C13 as stated: a calculation answered while no regulation row is active *)
(* is answered with an error and carries no stops and no logs.             *)
(***************************************************************************)
C13_Original ==
    [][ (ActiveRows(hosRows) = << >> /\ response' # response)
        => (/\ response'.status = 500
            /\ "error" \in DOMAIN response'.data
            /\ {"stops", "logs"} \cap DOMAIN response'.data = {}) ]_vars

(***************************************************************************)
(* C13 amended: a calculation made while no regulation row is active works *)
(* with the built-in values (11 h driving, 14 h duty, 10 h rest, 70 h in   *)
(* 8 days, break of 0.5 h after 8 h) and is answered 200 with the full     *)
(* stop list and both daily logs.                                          *)
(***************************************************************************)
C13_FallbackWhenNoProfile ==
    [][ (ActiveRows(hosRows) = << >> /\ last' # last)
        => (/\ ~last'.self.from_db
            /\ IsDefaultRegulation(last'.self)
            /\ last'.self.cycle_hours = 70 * 60
            /\ last'.self.cycle_days = 8
            /\ Len(last'.result.stops) = 6
            /\ Len(last'.result.logs) = 2
            /\ response'.status = 200
            /\ response'.data = last'.result) ]_vars

\* A calculation answered after the last active row was deactivated or deleted.
C13_Witness ==
    /\ Calculated
    /\ hosRows # << >>
    /\ ActiveRows(hosRows) = << >>
    /\ ~last.self.from_db
    /\ response.status = 200
    /\ Len(response.data.stops) = 6

(***************************************************************************)
(* C14: for every cycle_hours_used in [0, 70 h], also when it plus the     *)
(* trip's on-duty hours exceeds the cap, calculate_route returns the full  *)
(* stop list and log list and no error, the same stops and logs for every  *)
(* value; check_hos_compliance alone tells the excess (isCompliant false). *)
(***************************************************************************)
InRangeUsed == { u \in UsedValues : u >= 0 /\ u <= 70 * 60 }

RouteWithHoursUsed(u) ==
    calculate_route(last.self, [last.trip EXCEPT !.cycle_hours_used = Number(u)], last.now)

C14_CycleCapNeverRefuses ==
    Calculated =>
        \A u \in InRangeUsed :
            LET r == RouteWithHoursUsed(u)
            IN /\ DOMAIN r = DOMAIN last.result
               /\ "error" \notin DOMAIN r
               /\ Len(r.stops) >= 5
               /\ Len(r.logs) = 2
               /\ r.stops = last.result.stops
               /\ r.logs = last.result.logs
               /\ (u + 6 * OnDutyTenths(r.logs) > 70 * 60)
                     => ~check_hos_compliance(r, u).isCompliant

\* 69 h used: the trip's on-duty hours take the total over 70 h.
C14_Witness ==
    /\ Calculated
    /\ last.trip.cycle_hours_used.value = 69 * 60
    /\ 69 * 60 + 6 * OnDutyTenths(last.result.logs) > 70 * 60
    /\ Len(last.result.stops) = 6
    /\ Len(last.result.logs) = 2
    /\ ~check_hos_compliance(last.result, 69 * 60).isCompliant

InvalidRequestFields(data) ==
    (IF data.current_location = "" THEN {"current_location"} ELSE {})
    \cup (IF data.pickup_location = "" THEN {"pickup_location"} ELSE {})
    \cup (IF data.dropoff_location = "" THEN {"dropoff_location"} ELSE {})
    \cup (IF ~data.cycle_hours_used.numeric
             \/ ~(data.cycle_hours_used.value \in 0..(70 * 60))
          THEN {"cycle_hours_used"} ELSE {})

C16_ItineraryOnlyWhenValid ==
    response # None =>
        /\ ({"stops", "logs"} \cap DOMAIN response.data # {})
              => (/\ InvalidRequestFields(response.request) = {}
                  /\ response.status = 200
                  /\ {"stops", "logs"} \subseteq DOMAIN response.data)
        /\ InvalidRequestFields(response.request) # {}
              => (/\ response.status = 400
                  /\ DOMAIN response.data = InvalidRequestFields(response.request))
        /\ (InvalidRequestFields(response.request) = {} /\ response.status = 500)
              => DOMAIN response.data = {"error"}

(***************************************************************************)
(* C17: when a save operation has ended, the database holds either every   *)
(* row of the request (the Route, its stops, its log days and their        *)
(* activities) or none of them.                                            *)
(***************************************************************************)
C17_SaveAllOrNothing ==
    (save # None /\ save.pc = "done") =>
        \/ save.persisted = << >>
        \/ save.persisted = CreateInserts(save.request)

(***************************************************************************)
(* C18: in every stop sequence the driving time accumulated since the      *)
(* start or since the previous rest or overnight stop never exceeds        *)
(* break_required_after, and a stop reached with that much driving is a    *)
(* rest stop of break_duration (or the overnight stop).                    *)
(***************************************************************************)
\* The drive that ends at stop i: from the departure of the stop before it.
Leg(stops, i) == StopTime(stops[i].arrivalTime) - StopTime(stops[i - 1].departureTime)

RECURSIVE DrivingSinceRest(_, _)
DrivingSinceRest(stops, i) ==
    IF i = 1 THEN 0
    ELSE Leg(stops, i)
         + (IF stops[i - 1].type \in {"rest", "overnight"} THEN 0
            ELSE DrivingSinceRest(stops, i - 1))

C18_BreakRule ==
    Calculated =>
        LET stops == last.result.stops IN
        \A i \in 1..Len(stops) :
            /\ DrivingSinceRest(stops, i) <= last.self.break_required_after
            /\ (DrivingSinceRest(stops, i) >= last.self.break_required_after /\ i < Len(stops))
                  => (/\ stops[i].type \in {"rest", "overnight"}
                      /\ stops[i].type = "rest"
                            => StopTime(stops[i].departureTime) - StopTime(stops[i].arrivalTime)
                                 = last.self.break_duration)

(***************************************************************************)
(* C19: for every regulation whose hour fields are all > 0, on each day    *)
(* the driving between stops totals at most max_driving_hours and the time *)
(* from the start of the shift to the overnight stop (day 1) or to the end *)
(* of the trip (day 2) is at most max_duty_hours.                          *)
(***************************************************************************)
OvernightIndex(stops) == CHOOSE i \in 1..Len(stops) : stops[i].type = "overnight"

RECURSIVE SumLegs(_, _, _)
\* driving over the legs that end at stops lo..hi
SumLegs(stops, lo, hi) ==
    IF lo > hi THEN 0 ELSE Leg(stops, hi) + SumLegs(stops, lo, hi - 1)

C19_ShiftLimits ==
    (Calculated /\ AllHourFieldsPositive(last.self)) =>
        LET stops == last.result.stops
            o == OvernightIndex(stops)
            n == Len(stops)
        IN /\ SumLegs(stops, 2, o) <= last.self.max_driving_hours
           /\ SumLegs(stops, o + 1, n) <= last.self.max_driving_hours
           /\ StopTime(stops[o].arrivalTime) - StopTime(stops[1].arrivalTime)
                <= last.self.max_duty_hours
           /\ StopTime(stops[n].departureTime) - StopTime(stops[o].departureTime)
                <= last.self.max_duty_hours

(***************************************************************************)
(* C20: the time from the overnight stop's arrival to its departure (Day   *)
(* 2, 06:00 AM) equals required_rest_hours, the duration the stop reports. *)
(***************************************************************************)
C20_OvernightLastsRequiredRest ==
    Calculated =>
        LET st == last.result.stops[OvernightIndex(last.result.stops)]
        IN /\ st.departureTime = [day |-> 2, clock |-> [h |-> 6, m |-> 0, p |-> "AM"]]
           /\ st.duration[1] = last.self.required_rest_hours
           /\ StopTime(st.departureTime) - StopTime(st.arrivalTime)
                = last.self.required_rest_hours

(***************************************************************************)
(* C21: each day's log is the timeline of the day's stops: the window of   *)
(* every stop that arrives and departs that day (arrival clock to          *)
(* departure clock) is a non-driving activity of the day's log, a driving  *)
(* activity runs from each stop's departure to the next stop's arrival,    *)
(* and off-duty and sleeper-berth activities lie before the first stop's   *)
(* arrival, at or after the last stop's arrival, or on a stop's window.    *)
(***************************************************************************)
\* The calendar day a log is for.
LogDayNumber(log) == IF log.date = "04/15/2023" THEN 1 ELSE 2

StopsOfDay(n) ==
    { j \in 1..Len(last.result.stops) : last.result.stops[j].arrivalTime.day = n }

IsWindowOf(act, st) ==
    /\ HHMM(act.startTime) = ClockMinutes(st.arrivalTime.clock)
    /\ HHMM(act.endTime) = ClockMinutes(st.departureTime.clock)

LogFollowsStops(log) ==
    LET stops == last.result.stops
        day == StopsOfDay(LogDayNumber(log))
        acts == log.activities
        first == CHOOSE j \in day : \A j2 \in day : j <= j2
        final == CHOOSE j \in day : \A j2 \in day : j >= j2
    IN /\ \A j \in day :
             stops[j].departureTime.day = stops[j].arrivalTime.day
                => \E k \in 1..Len(acts) :
                      acts[k].type # "driving" /\ IsWindowOf(acts[k], stops[j])
       /\ \A j \in day \ {first} :
             \E k \in 1..Len(acts) :
                /\ acts[k].type = "driving"
                /\ HHMM(acts[k].startTime) = ClockMinutes(stops[j - 1].departureTime.clock)
                /\ HHMM(acts[k].endTime) = ClockMinutes(stops[j].arrivalTime.clock)
       /\ \A k \in 1..Len(acts) :
             acts[k].type \in {"offDuty", "sleeperBerth"}
                => \/ HHMM(acts[k].endTime) <= ClockMinutes(stops[first].arrivalTime.clock)
                   \/ HHMM(acts[k].startTime) >= ClockMinutes(stops[final].arrivalTime.clock)
                   \/ \E j \in day : IsWindowOf(acts[k], stops[j])

C21_LogsFollowStops ==
    Calculated => \A i \in 1..Len(last.result.logs) : LogFollowsStops(last.result.logs[i])

(***************************************************************************)
(* C22: the clock advances between stops by the route's driving durations: *)
(* 2 h from the start to the pickup and 9.5 h from the pickup to the       *)
(* dropoff, 11.5 h in all, which is also the driving total of the logs.    *)
(***************************************************************************)
RECURSIVE DrivingTenths(_)
DrivingTenths(logs) ==
    IF logs = << >> THEN 0
    ELSE Head(logs).totalHours.driving + DrivingTenths(Tail(logs))

C22_DrivingEqualsRouteDuration ==
    Calculated =>
        LET stops == last.result.stops
            n == Len(stops)
        IN /\ Leg(stops, 2) = 7200 \div 60
           /\ SumLegs(stops, 3, n) = 34200 \div 60
           /\ SumLegs(stops, 2, n) = RouteDrivingMinutes
           /\ 6 * DrivingTenths(last.result.logs) = RouteDrivingMinutes

(***************************************************************************)
(* C23: the stop list holds a fuel stop iff the route is longer than 400   *)
(* miles; a fuel stop lasts exactly 1 hour and its cumulative mileage is   *)
(* greater than 400.                                                       *)
(***************************************************************************)
FuelStops(stops) == { i \in 1..Len(stops) : stops[i].type = "fuel" }

C23_FuelStopAfter400Miles ==
    Calculated =>
        LET stops == last.result.stops IN
        /\ (FuelStops(stops) # {}) <=> (last.result.totalDistance > 400)
        /\ \A i \in FuelStops(stops) :
              /\ StopTime(stops[i].departureTime) - StopTime(stops[i].arrivalTime) = 60
              /\ stops[i].mileage > 400

(***************************************************************************)
(* C24: the remarks of a daily log are one entry per stop whose arrival    *)
(* falls on the log's day, in the order of the stops, each made of the     *)
(* stop's arrival clock time, its description and its location.            *)
(***************************************************************************)
\* The position of stop j among the stops of its day.
RankInDay(j) ==
    Cardinality({ j2 \in StopsOfDay(last.result.stops[j].arrivalTime.day) : j2 <= j })

C24_RemarksPerStop ==
    Calculated =>
        \A i \in 1..Len(last.result.logs) :
            LET log == last.result.logs[i]
                day == StopsOfDay(LogDayNumber(log))
            IN /\ Len(log.remarks) = Cardinality(day)
               /\ \A j \in day :
                     log.remarks[RankInDay(j)]
                        = << last.result.stops[j].arrivalTime.clock,
                             last.result.stops[j].description,
                             last.result.stops[j].location >>

\* A profile with a day-1 rest stop: five remarks on day 1, two on day 2.
C24_Witness ==
    /\ Calculated
    /\ last.self.break_required_after = 120
    /\ Len(last.result.logs[1].remarks) = 5
    /\ Len(last.result.logs[2].remarks) = 2
    /\ last.result.logs[1].remarks[3][1] = [h |-> 1, m |-> 30, p |-> "PM"]
    /\ last.result.logs[2].remarks[2][3] = "Dropoff Point"

(***************************************************************************)
(* C26: day 2's startLocation equals day 1's endLocation, which is the     *)
(* overnight stop's location, and day 2 opens with a sleeper-berth         *)
(* activity from 00:00 to 06:00 located at the overnight stop.             *)
(***************************************************************************)
C26_LocationContinuous ==
    Calculated =>
        LET logs == last.result.logs
            overnight == last.result.stops[OvernightIndex(last.result.stops)]
        IN /\ Len(logs) = 2
           /\ logs[1].endLocation = overnight.location
           /\ logs[2].startLocation = logs[1].endLocation
           /\ logs[2].activities[1].type = "sleeperBerth"
           /\ logs[2].activities[1].startTime = <<0, 0>>
           /\ logs[2].activities[1].endTime = <<6, 0>>
           /\ logs[2].activities[1].location = overnight.location

(***************************************************************************)
(* C27: stop mileage never decreases along the stop sequence and is the    *)
(* route's total distance at the dropoff; every daily log's totalMiles is  *)
(* >= 0; and the totalMiles of the logs add up to the total distance.      *)
(***************************************************************************)
RECURSIVE TotalMilesSum(_)
TotalMilesSum(logs) ==
    IF logs = << >> THEN 0 ELSE Head(logs).totalMiles + TotalMilesSum(Tail(logs))

C27_MileageConserved ==
    Calculated =>
        LET stops == last.result.stops
            logs == last.result.logs
        IN /\ \A i \in 2..Len(stops) : stops[i - 1].mileage <= stops[i].mileage
           /\ stops[Len(stops)].type = "dropoff"
           /\ stops[Len(stops)].mileage = last.result.totalDistance
           /\ \A i \in 1..Len(logs) : logs[i].totalMiles >= 0
           /\ TotalMilesSum(logs) = last.result.totalDistance

\* 500 miles on day 1 and 250 on day 2 of the 750-mile route.
C27_Witness ==
    /\ Calculated
    /\ last.result.totalDistance = 750
    /\ Len(last.result.logs) = 2
    /\ last.result.logs[1].totalMiles = 500
    /\ last.result.logs[2].totalMiles = 250
    /\ last.result.stops[Len(last.result.stops)].mileage = 750

(***************************************************************************)
(* C25: once every started run of seed_hos_regulations has completed,      *)
(* whatever rows existed before and however the statements of the runs     *)
(* interleaved, exactly one HOSRegulation row has is_active = true.        *)
(***************************************************************************)
SeedRunsCompleted ==
    /\ seedRuns # None
    /\ \A p \in SeedRunIds : seedRuns[p] \in {"idle", "done"}
    /\ \E p \in SeedRunIds : seedRuns[p] = "done"

C25_OneActiveAfterSeeding ==
    SeedRunsCompleted => Len(ActiveRows(hosRows)) = 1

====
